---- MODULE Spec2Model ----
(***************************************************************************)
(* Model of the DuckDuckGo search-redirect bookmarklet:                    *)
(*   src/src/utils.js            URL parameter extraction, URL building    *)
(*   src/unnamed/part_001        the selection modal (ui.js, createModal)  *)
(*   src/bookmarklets/duckduckgo.js   the entry script                     *)
(*                                                                         *)
(* Strings the code transforms (parameter values, queries, URLs) are       *)
(* sequences of one-character strings, so that encoding is computed.       *)
(* Parameter names, host names and paths are compared only for equality    *)
(* and are plain strings.                                                  *)
(*                                                                         *)
(* JavaScript runs every event handler to completion, so one handler is    *)
(* one action.  The callbacks a handler calls run inside that action; what *)
(* a callback could observe when it started is recorded in the call log of *)
(* the modal (submitCalls).                                                *)
(***************************************************************************)
EXTENDS Integers, Sequences, FiniteSets, TLC

VARIABLES
  location,     \* window.location of the page: hostname, pathname, search
  modals,       \* every modal element createModal has built, in creation order
  invocations,  \* one record per run of duckduckgoRedirect
  alerts,       \* the alert() calls made, in order
  opened,       \* the window.open() calls made, in order
  lastEvent,    \* the event whose handler ran last
  calls         \* direct calls of buildSearchUrl (specification SpecBuild)

vars == <<location, modals, invocations, alerts, opened, lastEvent, calls>>

(***************************************************************************)
(* Bounds of the model.                                                    *)
(***************************************************************************)
MaxInvocations == 2   \* activations of the bookmarklet on one page
MaxQueryLen == 2      \* length of the generated query strings (SpecBuild)
MaxSearchLen == 4     \* length of the generated location.search (SpecExtract)
MaxTbsParts == 2      \* parts of the generated parameter values (SpecDescribe)

(***************************************************************************)
(* Strings.                                                                *)
(***************************************************************************)
Range(s) == {s[i] : i \in DOMAIN s}

\* JavaScript null: a value no string over one-character tokens equals.
Null == <<"null">>

Cats == <<"c", "a", "t", "s">>
Dogs == <<"d", "o", "g", "s">>
QdrW == <<"q", "d", "r", ":", "w">>
En   == <<"e", "n">>
One  == <<"1">>
AB   == <<"a", " ", "b">>

\* JavaScript truthiness of a string-or-null value.
Truthy(v) == v # Null /\ v # <<>>

(***************************************************************************)
(* The pages the bookmarklet is activated on.  search is the list of        *)
(* entries URLSearchParams yields for location.search, in order.           *)
(***************************************************************************)
Entry(k, v) == [key |-> k, value |-> v]

Loc(h, p, s) == [hostname |-> h, pathname |-> p, search |-> s]

Locations ==
  { Loc("www.google.com", "/search", <<Entry("q", Cats)>>),
    Loc("www.google.com", "/search", <<Entry("q", Cats), Entry("tbs", QdrW)>>),
    Loc("google.com", "/search",
        <<Entry("q", Cats), Entry("tbs", QdrW), Entry("hl", En)>>),
    Loc("www.google.com", "/search", <<Entry("hl", En)>>),
    Loc("www.google.com", "/search", <<Entry("q", <<>>), Entry("hl", En)>>),
    Loc("www.google.com", "/search",
        <<Entry("hl", En), Entry("q", AB), Entry("query-only", One)>>),
    Loc("www.google.com", "/search",
        <<Entry("q", Cats), Entry("q", Dogs), Entry("hl", En)>>),
    Loc("www.google.com", "/maps", <<Entry("q", Cats)>>),
    Loc("duckduckgo.com", "/search", <<Entry("q", Cats)>>),
    Loc("duckduckgo.com", "/", <<Entry("q", Cats), Entry("hl", En)>>) }

(***************************************************************************)
(* A JavaScript object with string keys: its own keys in insertion order   *)
(* and their values.                                                       *)
(***************************************************************************)
EmptyObject == [keys |-> <<>>, val |-> <<>>]

HasKey(obj, k) == k \in Range(obj.keys)

\* obj[k] = v for a string v.  Assigning a string to __proto__ calls the
\* setter inherited from Object.prototype, which ignores it.
ObjectSet(obj, k, v) ==
  IF k = "__proto__" THEN obj
  ELSE [keys |-> IF HasKey(obj, k) THEN obj.keys ELSE Append(obj.keys, k),
        val  |-> [x \in Range(obj.keys) \cup {k} |->
                    IF x = k THEN v ELSE obj.val[x]]]

(***************************************************************************)
(* src/src/utils.js                                                        *)
(***************************************************************************)
\* Variant: the path is not compared.
isGoogleSearchPage_HostOnly ==
  location.hostname = "www.google.com" \/ location.hostname = "google.com"

\* Variant: the host without "www." is not accepted.
isGoogleSearchPage_WwwOnly ==
  location.hostname = "www.google.com" /\ location.pathname = "/search"

isGoogleSearchPage ==
  /\ (location.hostname = "www.google.com" \/ location.hostname = "google.com")
  /\ location.pathname = "/search"

RECURSIVE CopyEntries(_, _)
CopyEntries(entries, params) ==
  IF entries = <<>> THEN params
  ELSE CopyEntries(Tail(entries),
                   ObjectSet(params, Head(entries).key, Head(entries).value))

\* Variant: the q entry is left out, as getNonQueryParams does.
extractUrlParams_WithoutQuery ==
  CopyEntries(SelectSeq(location.search, LAMBDA e : e.key # "q"), EmptyObject)

extractUrlParams == CopyEntries(location.search, EmptyObject)

extractSearchQuery ==
  LET params == extractUrlParams
  IN  IF HasKey(params, "q") /\ Truthy(params.val["q"])
      THEN params.val["q"] ELSE Null

\* URLSearchParams.toString(): application/x-www-form-urlencoded serialising
\* of one character.
Unreserved ==
  {"a", "b", "c", "d", "e", "g", "n", "o", "q", "r", "s", "t", "w", "1",
   "*", "-", ".", "_"}

UrlEncodeChar(c) ==
  CASE c \in Unreserved -> <<c>>
    [] c = " " -> <<"+">>
    [] c = "&" -> <<"%", "2", "6">>
    [] c = "+" -> <<"%", "2", "B">>
    [] c = ":" -> <<"%", "3", "A">>
    [] c = "=" -> <<"%", "3", "D">>
    [] c = "%" -> <<"%", "2", "5">>

RECURSIVE UrlEncode(_)
UrlEncode(s) ==
  IF s = <<>> THEN <<>> ELSE UrlEncodeChar(Head(s)) \o UrlEncode(Tail(s))

\* new URLSearchParams(string): application/x-www-form-urlencoded parsing.
\* The escapes decoded are the ones UrlEncodeChar writes, and %20.
PercentDecode(h1, h2) ==
  CASE h1 = "2" /\ h2 = "6" -> <<"&">>
    [] h1 = "2" /\ h2 = "B" -> <<"+">>
    [] h1 = "3" /\ h2 = "A" -> <<":">>
    [] h1 = "3" /\ h2 = "D" -> <<"=">>
    [] h1 = "2" /\ h2 = "5" -> <<"%">>
    [] h1 = "2" /\ h2 = "0" -> <<" ">>
    [] OTHER -> <<"%", h1, h2>>

RECURSIVE UrlDecode(_)
UrlDecode(s) ==
  IF s = <<>> THEN <<>>
  ELSE IF Head(s) = "+" THEN <<" ">> \o UrlDecode(Tail(s))
  ELSE IF Head(s) = "%" /\ Len(s) >= 3
       THEN PercentDecode(s[2], s[3]) \o UrlDecode(SubSeq(s, 4, Len(s)))
       ELSE <<Head(s)>> \o UrlDecode(Tail(s))

\* The index of the first sep in s, or Len(s) + 1 when there is none.
RECURSIVE IndexOf(_, _, _)
IndexOf(s, sep, from) ==
  IF from > Len(s) THEN Len(s) + 1
  ELSE IF s[from] = sep THEN from ELSE IndexOf(s, sep, from + 1)

RECURSIVE Split(_, _)
Split(s, sep) ==
  LET i == IndexOf(s, sep, 1)
  IN  IF i > Len(s) THEN <<s>>
      ELSE <<SubSeq(s, 1, i - 1)>> \o Split(SubSeq(s, i + 1, Len(s)), sep)

\* A parameter name as a plain string.
RECURSIVE Concat(_)
Concat(s) == IF s = <<>> THEN "" ELSE Head(s) \o Concat(Tail(s))

ParsePair(segment) ==
  LET i == IndexOf(segment, "=", 1)
  IN  Entry(Concat(UrlDecode(SubSeq(segment, 1, i - 1))),
            UrlDecode(SubSeq(segment, i + 1, Len(segment))))

RECURSIVE ParsePairs(_)
ParsePairs(segments) ==
  IF segments = <<>> THEN <<>>
  ELSE (IF Head(segments) = <<>> THEN <<>> ELSE <<ParsePair(Head(segments))>>)
       \o ParsePairs(Tail(segments))

URLSearchParams(init) ==
  LET body == IF init # <<>> /\ Head(init) = "?" THEN Tail(init) ELSE init
  IN  ParsePairs(Split(body, "&"))

\* Properties every object literal inherits from Object.prototype.
ObjectPrototypeKeys == {"toString", "constructor"}

\* The name of the function inherited under a key: constructor is Object.
FunctionName(key) == IF key = "constructor" THEN "Object" ELSE key

Undefined == "undefined"

\* baseUrls[searchEngine]
baseUrls(searchEngine) ==
  IF searchEngine = "duckduckgo" THEN "https://duckduckgo.com/"
  ELSE IF searchEngine \in ObjectPrototypeKeys
       THEN "function " \o FunctionName(searchEngine) \o "() { [native code] }"
       ELSE Undefined

(***************************************************************************)
(* getParameterDescription and its parsers.  A JavaScript value is a       *)
(* record of its type and, for a string, its characters: looking a key up  *)
(* in an object literal gives the own property, an inherited one, or       *)
(* undefined.  A label the code writes as a literal is one token.          *)
(***************************************************************************)
String(chars) == [type |-> "string", value |-> chars]
InheritedFunction(key) ==
  [type |-> "function",
   value |-> <<"function " \o FunctionName(key) \o "() { [native code] }">>]
ObjectPrototype == [type |-> "object", value |-> <<"[object Object]">>]
UndefinedValue == [type |-> "undefined", value |-> <<"undefined">>]

TruthyValue(v) ==
  /\ v.type # "undefined"
  /\ ~(v.type = "string" /\ v.value = <<>>)

\* left || right
OrElse(left, right) == IF TruthyValue(left) THEN left ELSE right

\* object[key], for an object literal whose own properties are the strings
\* own[k]
ObjectGet(own, key) ==
  IF key \in DOMAIN own THEN String(own[key])
  ELSE IF key \in ObjectPrototypeKeys THEN InheritedFunction(key)
  ELSE IF key = "__proto__" THEN ObjectPrototype
  ELSE UndefinedValue

\* tbsValue.includes(part)
RECURSIVE Includes(_, _)
Includes(s, part) ==
  IF Len(s) < Len(part) THEN FALSE
  ELSE IF SubSeq(s, 1, Len(part)) = part THEN TRUE
  ELSE Includes(Tail(s), part)

QdrD == <<"q", "d", "r", ":", "d">>
QdrM == <<"q", "d", "r", ":", "m">>
QdrY == <<"q", "d", "r", ":", "y">>
Cdr1 == <<"c", "d", "r", ":", "1">>

\* Variant: the tests for the past week and the past month are exchanged.
parseTimeBasedSearch_WeekMonthSwapped(tbsValue) ==
  IF tbsValue = <<>> THEN <<"Time Filter">>
  ELSE IF Includes(tbsValue, QdrD) THEN <<"Time Filter: Past Day">>
  ELSE IF Includes(tbsValue, QdrM) THEN <<"Time Filter: Past Week">>
  ELSE IF Includes(tbsValue, QdrW) THEN <<"Time Filter: Past Month">>
  ELSE IF Includes(tbsValue, QdrY) THEN <<"Time Filter: Past Year">>
  ELSE IF Includes(tbsValue, Cdr1) THEN <<"Time Filter: Custom Date Range">>
  ELSE <<"Time Filter">>

parseTimeBasedSearch(tbsValue) ==
  IF tbsValue = <<>> THEN <<"Time Filter">>
  ELSE IF Includes(tbsValue, QdrD) THEN <<"Time Filter: Past Day">>
  ELSE IF Includes(tbsValue, QdrW) THEN <<"Time Filter: Past Week">>
  ELSE IF Includes(tbsValue, QdrM) THEN <<"Time Filter: Past Month">>
  ELSE IF Includes(tbsValue, QdrY) THEN <<"Time Filter: Past Year">>
  ELSE IF Includes(tbsValue, Cdr1) THEN <<"Time Filter: Custom Date Range">>
  ELSE <<"Time Filter">>

safeOptions ==
  [k \in {"active", "off", "images"} |->
     CASE k = "active" -> <<"Safe Search: Active">>
       [] k = "off"    -> <<"Safe Search: Off">>
       [] k = "images" -> <<"Safe Search: Images">>]

parseSafeSearch(safeValue) ==
  OrElse(ObjectGet(safeOptions, Concat(safeValue)),
         String(<<"Safe Search: ">> \o safeValue))

searchTypes ==
  [k \in {"isch", "vid", "nws", "shop", "bks", "fin"} |->
     CASE k = "isch" -> <<"Search Type: Images">>
       [] k = "vid"  -> <<"Search Type: Videos">>
       [] k = "nws"  -> <<"Search Type: News">>
       [] k = "shop" -> <<"Search Type: Shopping">>
       [] k = "bks"  -> <<"Search Type: Books">>
       [] k = "fin"  -> <<"Search Type: Finance">>]

parseSearchType(tbmValue) ==
  OrElse(ObjectGet(searchTypes, Concat(tbmValue)),
         String(<<"Search Type: ">> \o tbmValue))

ranges ==
  [k \in {"d", "w", "m", "y"} |->
     CASE k = "d" -> <<"Past Day">>
       [] k = "w" -> <<"Past Week">>
       [] k = "m" -> <<"Past Month">>
       [] k = "y" -> <<"Past Year">>]

\* The template literal converts the value found to a string.
parseTimeRange(timeRange) ==
  String(<<"Time Range: ">>
         \o OrElse(ObjectGet(ranges, Concat(timeRange)), String(timeRange)).value)

RecognizedNames ==
  {"q", "tbs", "lr", "cr", "num", "safe", "tbm", "tbs_qdr", "source", "hl", "gl"}

\* The own properties of descriptions that are strings whatever the value.
descriptions(paramValue) ==
  [k \in RecognizedNames \ {"safe", "tbm"} |->
     CASE k = "q"       -> <<"Search Query">>
       [] k = "tbs"     -> parseTimeBasedSearch(paramValue)
       [] k = "lr"      -> <<"Language Restriction">>
       [] k = "cr"      -> <<"Country Restriction">>
       [] k = "num"     -> <<"Number of Results: ">> \o paramValue
       [] k = "tbs_qdr" -> parseTimeRange(paramValue).value
       [] k = "source"  -> <<"Source">>
       [] k = "hl"      -> <<"Language: ">> \o paramValue
       [] k = "gl"      -> <<"Country: ">> \o paramValue]

getParameterDescription(paramName, paramValue) ==
  OrElse(CASE paramName = "safe" -> parseSafeSearch(paramValue)
           [] paramName = "tbm"  -> parseSearchType(paramValue)
           [] OTHER -> ObjectGet(descriptions(paramValue), paramName),
         String(<<paramName, ": ">> \o paramValue))

\* The result of a call: a returned URL or a thrown Error.
Returned(url) == [threw |-> FALSE, value |-> url]
Thrown(msg)   == [threw |-> TRUE, value |-> msg]

\* Variant: the names selected in selectedParams are appended to the URL.
buildSearchUrl_AppendsSelected(searchEngine, query, selectedParams, allParams) ==
  LET baseUrl == baseUrls(searchEngine)
      kept == {key \in DOMAIN selectedParams : selectedParams[key]}
  IN  IF baseUrl = Undefined
      THEN Thrown(<<"Unsupported search engine: ", searchEngine>>)
      ELSE Returned(<<baseUrl, "?">> \o <<"q", "=">> \o UrlEncode(query)
                    \o (IF kept = {} THEN <<>> ELSE <<"&", "kept">>))

\* Variant: the query is concatenated into the URL as it is.
buildSearchUrl_RawQuery(searchEngine, query, selectedParams, allParams) ==
  LET baseUrl == baseUrls(searchEngine)
  IN  IF baseUrl = Undefined
      THEN Thrown(<<"Unsupported search engine: ", searchEngine>>)
      ELSE Returned(<<baseUrl, "?">> \o <<"q", "=">> \o query)

buildSearchUrl(searchEngine, query, selectedParams, allParams) ==
  LET baseUrl == baseUrls(searchEngine)
  IN  IF baseUrl = Undefined
      THEN Thrown(<<"Unsupported search engine: ", searchEngine>>)
      ELSE Returned(<<baseUrl, "?">> \o <<"q", "=">> \o UrlEncode(query))

(***************************************************************************)
(* src/unnamed/part_001 (ui.js): the selection modal.                      *)
(*                                                                         *)
(* A modal element is a record:                                            *)
(*   inv          the invocation whose closures are its callbacks          *)
(*   params       the params argument                                      *)
(*   query        the searchQuery argument                                 *)
(*   inDoc        the element is attached to document.body                 *)
(*   listening    its escapeHandler is a keydown listener of the document  *)
(*   queryOnly    checked state of the "query only" checkbox               *)
(*   checked      checked state of each parameter checkbox                 *)
(*   submitCalls  the calls of onSubmit: the argument, and whether the     *)
(*                modal was in the document when the call started          *)
(*   cancelCalls  the number of calls of onCancel                          *)
(*   closedBy     what detached the element (history, read by no handler)  *)
(***************************************************************************)
ModalIds == DOMAIN modals

\* Object.keys(params).filter(key => key !== 'q')
nonQueryParams(params) == SelectSeq(params.keys, LAMBDA key : key # "q")

\* document.getElementById('search-redirect-modal'): the attached modals;
\* the first in document order is the one created first.
ModalsInDocument == {m \in ModalIds : modals[m].inDoc}

\* The checkboxes of a modal: the kind and the element id.
QueryOnlyBox == <<"queryOnly", "query-only">>
ParamBox(paramName) == <<"param", paramName>>
Boxes(md) == {QueryOnlyBox} \cup {ParamBox(p) : p \in DOMAIN md.checked}

IsChecked(md, box) ==
  IF box = QueryOnlyBox THEN md.queryOnly ELSE md.checked[box[2]]

SetChecked(md, box, v) ==
  IF box = QueryOnlyBox THEN [md EXCEPT !.queryOnly = v]
  ELSE [md EXCEPT !.checked[box[2]] = v]

\* change listener of the "query only" checkbox
queryOnlyChange(md) ==
  IF md.queryOnly
  THEN [md EXCEPT !.checked = [p \in DOMAIN md.checked |-> FALSE]]
  ELSE md

\* Variant: a parameter checkbox's change listener leaves "query only" alone.
paramChange_KeepsQueryOnly(md, paramName) == md

\* change listener of a parameter checkbox
paramChange(md, paramName) ==
  IF md.checked[paramName] THEN [md EXCEPT !.queryOnly = FALSE] ELSE md

\* checkbox.dispatchEvent(new Event('change')): run the listener of that box
dispatchChange(md, box) ==
  IF box = QueryOnlyBox THEN queryOnlyChange(md) ELSE paramChange(md, box[2])

\* A click on the checkbox itself: the browser toggles it and fires change.
\* The click bubbles to the container with e.target === checkbox: no effect.
checkboxClick(md, box) ==
  dispatchChange(SetChecked(md, box, ~IsChecked(md, box)), box)

\* click listener of the option container, for a target that is not the
\* checkbox (disabled is false for every option createModal builds)
containerClick(md, box) ==
  dispatchChange(SetChecked(md, box, ~IsChecked(md, box)), box)

\* label.htmlFor = id: the labeled control is the first element of the modal
\* with that id; "query only" comes first and has the id 'query-only'.
LabeledControl(md, box) ==
  IF box[2] = QueryOnlyBox[2] THEN QueryOnlyBox ELSE box

\* A click on the label: the click bubbles to the container listener, then
\* the label's activation behaviour clicks its labeled control.
labelClick(md, box) ==
  checkboxClick(containerClick(md, box), LabeledControl(md, box))

\* modal.remove()
Detach(md, by) ==
  [md EXCEPT !.inDoc = FALSE,
             !.closedBy = IF md.inDoc THEN by ELSE @]

\* if (onCancel) onCancel(): the entry script's callback does nothing
CallOnCancel(md) == [md EXCEPT !.cancelCalls = @ + 1]

\* if (onSubmit) onSubmit(selectedParams)
CallOnSubmit(md, selectedParams) ==
  [md EXCEPT !.submitCalls =
     Append(@, [selectedParams |-> selectedParams, inDoc |-> md.inDoc])]

\* cancelButton click listener
cancelButtonClick(md) == CallOnCancel(Detach(md, "cancel"))

\* Variant: the target test of the modal click listener is inverted.
overlayClick_TargetInverted(md, targetIsModal) ==
  IF ~targetIsModal THEN CallOnCancel(Detach(md, "overlay")) ELSE md

\* modal click listener: every click inside the modal bubbles to it
overlayClick(md, targetIsModal) ==
  IF targetIsModal THEN CallOnCancel(Detach(md, "overlay")) ELSE md

\* Variant: the handler does not test the key.
escapeHandler_AnyKey(md, key) ==
  [CallOnCancel(Detach(md, "escape")) EXCEPT !.listening = FALSE]

\* escapeHandler, a keydown listener of the document
escapeHandler(md, key) ==
  IF key = "Escape"
  THEN [CallOnCancel(Detach(md, "escape")) EXCEPT !.listening = FALSE]
  ELSE md

\* Variant: the two branches on "query only" are exchanged.
selectedParamsOf_BranchesSwapped(md) ==
  IF ~md.queryOnly
  THEN [key \in DOMAIN md.checked |-> FALSE]
  ELSE [key \in DOMAIN md.checked |-> md.checked[key]]

\* selectedParams as the redirectButton click listener builds it
selectedParamsOf(md) ==
  IF md.queryOnly
  THEN [key \in DOMAIN md.checked |-> FALSE]
  ELSE [key \in DOMAIN md.checked |-> md.checked[key]]

\* Variant: onSubmit is called before modal.remove().
redirectButtonClick_CallbackFirst(md) ==
  Detach(CallOnSubmit(md, selectedParamsOf(md)), "redirect")

\* Variant: the modal is not removed on submission.
redirectButtonClick_KeepsModal(md) == CallOnSubmit(md, selectedParamsOf(md))

\* redirectButton click listener
redirectButtonClick(md) ==
  CallOnSubmit(Detach(md, "redirect"), selectedParamsOf(md))

\* Variant: "query only" starts unchecked.
NewModal_QueryOnlyUnchecked(params, searchQuery, inv) ==
  [inv |-> inv, params |-> params, query |-> searchQuery,
   inDoc |-> TRUE, listening |-> TRUE,
   queryOnly |-> FALSE,
   checked |-> [p \in Range(nonQueryParams(params)) |-> FALSE],
   submitCalls |-> <<>>, cancelCalls |-> 0, closedBy |-> "none"]

\* The element createModal builds and appends to document.body.
NewModal(params, searchQuery, inv) ==
  [inv |-> inv, params |-> params, query |-> searchQuery,
   inDoc |-> TRUE, listening |-> TRUE,
   queryOnly |-> TRUE,
   checked |-> [p \in Range(nonQueryParams(params)) |-> FALSE],
   submitCalls |-> <<>>, cancelCalls |-> 0, closedBy |-> "none"]

\* Variant: the existing modal is left in the document.
RemoveExisting_Skipped(ms) == ms

\* Variant: replacing the existing modal also calls its onCancel.
RemoveExisting_CancelsExisting(ms) ==
  LET present == {m \in DOMAIN ms : ms[m].inDoc}
  IN  IF present = {} THEN ms
      ELSE LET existingModal == CHOOSE m \in present : \A n \in present : m <= n
           IN  [ms EXCEPT ![existingModal] = CallOnCancel(Detach(@, "replaced"))]

\* The modals after existingModal.remove()
RemoveExisting(ms) ==
  LET present == {m \in DOMAIN ms : ms[m].inDoc}
  IN  IF present = {} THEN ms
      ELSE LET existingModal == CHOOSE m \in present : \A n \in present : m <= n
           IN  [ms EXCEPT ![existingModal] = Detach(@, "replaced")]

createModal(params, searchQuery, inv) ==
  modals' = Append(RemoveExisting(modals), NewModal(params, searchQuery, inv))

(***************************************************************************)
(* src/bookmarklets/duckduckgo.js: the entry script.                       *)
(***************************************************************************)
NotGoogleMessage == "This bookmarklet only works on Google search results pages."
NoQueryMessage   == "No search query found in the current page."

Event(type, m, target) == [type |-> type, modal |-> m, target |-> target]

\* Variant: the URL is concatenated from the raw query.
onSubmit_RawQuery(inv, selectedParams) ==
  <<[inv |-> inv,
     url |-> <<"https://duckduckgo.com/", "?", "q", "=">>
             \o invocations[inv].searchQuery,
     target |-> "_blank"]>>

\* The onSubmit closure of an invocation: the window.open calls it makes.
onSubmit(inv, selectedParams) ==
  LET duckduckgoUrl == buildSearchUrl("duckduckgo", invocations[inv].searchQuery,
                                      selectedParams, invocations[inv].allParams)
  IN  IF duckduckgoUrl.threw THEN <<>>
      ELSE <<[inv |-> inv, url |-> duckduckgoUrl.value, target |-> "_blank"]>>

\* One activation of the bookmarklet.
duckduckgoRedirect ==
  /\ Len(invocations) < MaxInvocations
  /\ LET inv == Len(invocations) + 1
     IN  IF ~isGoogleSearchPage
         THEN /\ alerts' = Append(alerts, [inv |-> inv, message |-> NotGoogleMessage])
              /\ invocations' = Append(invocations,
                   [outcome |-> "notApplicable", allParams |-> EmptyObject,
                    searchQuery |-> Null])
              /\ UNCHANGED modals
         ELSE LET allParams == extractUrlParams
                  searchQuery == extractSearchQuery
              IN  IF ~Truthy(searchQuery)
                  THEN /\ alerts' = Append(alerts,
                            [inv |-> inv, message |-> NoQueryMessage])
                       /\ invocations' = Append(invocations,
                            [outcome |-> "noQuery", allParams |-> allParams,
                             searchQuery |-> searchQuery])
                       /\ UNCHANGED modals
                  ELSE /\ createModal(allParams, searchQuery, inv)
                       /\ invocations' = Append(invocations,
                            [outcome |-> "modal", allParams |-> allParams,
                             searchQuery |-> searchQuery])
                       /\ UNCHANGED alerts
  /\ lastEvent' = Event("activate", 0, <<>>)
  /\ UNCHANGED <<location, opened, calls>>

(***************************************************************************)
(* User events.  A click reaches only an element that is in the document;  *)
(* a key press reaches the document whatever it holds.                     *)
(***************************************************************************)
Keys == {"Escape", "Enter"}

CancelClick(m) ==
  /\ modals[m].inDoc
  /\ modals' = [modals EXCEPT ![m] = overlayClick(cancelButtonClick(@), FALSE)]
  /\ lastEvent' = Event("cancelClick", m, <<>>)
  /\ UNCHANGED <<location, invocations, alerts, opened, calls>>

RedirectClick(m) ==
  /\ modals[m].inDoc
  /\ LET after == overlayClick(redirectButtonClick(modals[m]), FALSE)
     IN  /\ modals' = [modals EXCEPT ![m] = after]
         /\ opened' = opened \o
              onSubmit(after.inv,
                       after.submitCalls[Len(after.submitCalls)].selectedParams)
  /\ lastEvent' = Event("redirectClick", m, <<>>)
  /\ UNCHANGED <<location, invocations, alerts, calls>>

\* A click on the overlay outside the modal content: e.target === modal.
OverlayClick(m) ==
  /\ modals[m].inDoc
  /\ modals' = [modals EXCEPT ![m] = overlayClick(@, TRUE)]
  /\ lastEvent' = Event("overlayClick", m, <<>>)
  /\ UNCHANGED <<location, invocations, alerts, opened, calls>>

\* A click on the header, the query field or another part of the content
\* that has no listener of its own.
ContentClick(m) ==
  /\ modals[m].inDoc
  /\ modals' = [modals EXCEPT ![m] = overlayClick(@, FALSE)]
  /\ lastEvent' = Event("contentClick", m, <<>>)
  /\ UNCHANGED <<location, invocations, alerts, opened, calls>>

CheckboxClick(m, box) ==
  /\ modals[m].inDoc
  /\ modals' = [modals EXCEPT ![m] = overlayClick(checkboxClick(@, box), FALSE)]
  /\ lastEvent' = Event("checkboxClick", m, box)
  /\ UNCHANGED <<location, invocations, alerts, opened, calls>>

\* A click on the option row beside the checkbox and the label.
RowClick(m, box) ==
  /\ modals[m].inDoc
  /\ modals' = [modals EXCEPT ![m] = overlayClick(containerClick(@, box), FALSE)]
  /\ lastEvent' = Event("rowClick", m, box)
  /\ UNCHANGED <<location, invocations, alerts, opened, calls>>

LabelClick(m, box) ==
  /\ modals[m].inDoc
  /\ modals' = [modals EXCEPT ![m] = overlayClick(labelClick(@, box), FALSE)]
  /\ lastEvent' = Event("labelClick", m, box)
  /\ UNCHANGED <<location, invocations, alerts, opened, calls>>

\* keydown on the document: every registered escapeHandler runs.
KeyDown(key) ==
  /\ modals' = [m \in ModalIds |->
                  IF modals[m].listening THEN escapeHandler(modals[m], key)
                  ELSE modals[m]]
  /\ lastEvent' = Event("keydown", 0, <<key>>)
  /\ UNCHANGED <<location, invocations, alerts, opened, calls>>

Init ==
  /\ location \in Locations
  /\ modals = <<>>
  /\ invocations = <<>>
  /\ alerts = <<>>
  /\ opened = <<>>
  /\ lastEvent = Event("none", 0, <<>>)
  /\ calls = <<>>

Next ==
  \/ duckduckgoRedirect
  \/ \E m \in ModalIds : CancelClick(m)
  \/ \E m \in ModalIds : RedirectClick(m)
  \/ \E m \in ModalIds : OverlayClick(m)
  \/ \E m \in ModalIds : ContentClick(m)
  \/ \E m \in ModalIds : \E box \in Boxes(modals[m]) : CheckboxClick(m, box)
  \/ \E m \in ModalIds : \E box \in Boxes(modals[m]) : RowClick(m, box)
  \/ \E m \in ModalIds : \E box \in Boxes(modals[m]) : LabelClick(m, box)
  \/ \E key \in Keys : KeyDown(key)

Spec == Init /\ [][Next]_vars

(***************************************************************************)
(* SpecBuild: buildSearchUrl called directly, twice, with arguments drawn  *)
(* from bounded sets.                                                      *)
(***************************************************************************)
Alphabet == {"a", " ", "&", "+"}

RECURSIVE StringsUpTo(_)
StringsUpTo(n) ==
  IF n = 0 THEN {<<>>}
  ELSE LET shorter == StringsUpTo(n - 1)
       IN  shorter \cup {Append(s, c) : s \in shorter, c \in Alphabet}

Queries == StringsUpTo(MaxQueryLen) \cup {Cats}

Engines == {"duckduckgo", "bing", "toString"}

SelectionSets ==
  { <<>>, [key \in {"tbs"} |-> TRUE], [key \in {"tbs", "hl"} |-> key = "hl"] }

ParameterSets ==
  { CopyEntries(<<Entry("q", Cats)>>, EmptyObject),
    CopyEntries(<<Entry("q", Cats), Entry("tbs", QdrW), Entry("hl", En)>>,
                EmptyObject) }

BuildCall ==
  /\ Len(calls) < 2
  /\ \E searchEngine \in Engines, query \in Queries,
        selectedParams \in SelectionSets, allParams \in ParameterSets :
       calls' = Append(calls,
         [searchEngine |-> searchEngine, query |-> query,
          selectedParams |-> selectedParams, allParams |-> allParams,
          result |-> buildSearchUrl(searchEngine, query, selectedParams,
                                    allParams)])
  /\ UNCHANGED <<location, modals, invocations, alerts, opened, lastEvent>>

InitBuild ==
  /\ location = Loc("www.google.com", "/search", <<Entry("q", Cats)>>)
  /\ modals = <<>>
  /\ invocations = <<>>
  /\ alerts = <<>>
  /\ opened = <<>>
  /\ lastEvent = Event("none", 0, <<>>)
  /\ calls = <<>>

NextBuild == BuildCall

SpecBuild == InitBuild /\ [][NextBuild]_vars

(***************************************************************************)
(* Properties.                                                             *)
(***************************************************************************)
ClosingTriggers == {"cancel", "overlay", "escape", "redirect"}
CancellingTriggers == {"cancel", "overlay", "escape"}

CallbackCalls(md) == Len(md.submitCalls) + md.cancelCalls

EventOn(m, type) == lastEvent.type = type /\ lastEvent.modal = m

EscapePressed == lastEvent = Event("keydown", 0, <<"Escape">>)

\* C1: for every modal, onSubmit and onCancel are called at most once in
\* total (never both, never twice), and exactly once when a closing trigger
\* has ended the modal.
C1_ExactlyOneCallback ==
  \A m \in ModalIds :
    /\ CallbackCalls(modals[m]) <= 1
    /\ modals[m].closedBy \in ClosingTriggers => CallbackCalls(modals[m]) = 1

Exclusive(md) == ~(md.queryOnly /\ \E p \in DOMAIN md.checked : md.checked[p])

DirectOrRowClick(m, box) ==
  lastEvent \in {Event("checkboxClick", m, box), Event("rowClick", m, box)}

\* C2: in every state "query only" is never checked together with a parameter
\* checkbox; a click on the "query only" checkbox or its row that checks it
\* leaves every parameter checkbox unchecked, and a click on a parameter
\* checkbox or its row that checks it leaves "query only" unchecked.
C2_MutuallyExclusive ==
  [][\A m \in DOMAIN modals' :
       /\ Exclusive(modals'[m])
       /\ \A box \in Boxes(modals'[m]) :
            (DirectOrRowClick(m, box)' /\ ~IsChecked(modals[m], box)) =>
              /\ IsChecked(modals'[m], box)
              /\ \A other \in Boxes(modals'[m]) :
                   (other[1] # box[1]) => ~IsChecked(modals'[m], other)]_vars

\* C2 witness: a row click has just checked a second parameter checkbox of a
\* modal whose "query only" is unchecked.
C2_Witness ==
  \E m \in ModalIds :
    /\ lastEvent.type = "rowClick" /\ lastEvent.modal = m
    /\ lastEvent.target # QueryOnlyBox
    /\ ~modals[m].queryOnly
    /\ Cardinality({p \in DOMAIN modals[m].checked : modals[m].checked[p]}) = 2

\* C3: the document holds at most one modal element, and a modal that was in
\* the document when createModal ran again is no longer in it.
C3_AtMostOneModal ==
  /\ Cardinality(ModalsInDocument) <= 1
  /\ \A m \in ModalIds : m < Len(modals) => ~modals[m].inDoc

\* C3 witness: createModal ran while a modal was open and replaced it.
C3_Witness ==
  /\ Len(modals) = 2
  /\ modals[1].closedBy = "replaced"
  /\ modals[2].inDoc

CancelTriggerOn(m) ==
  \/ EventOn(m, "cancelClick")
  \/ EventOn(m, "overlayClick")
  \/ EscapePressed

\* C4: a Cancel click, an overlay click or an Escape press on an open modal
\* calls that modal's onCancel exactly once, calls its onSubmit not at all,
\* and leaves no modal in the document.
C4_CancelTriggers ==
  [][\A m \in ModalIds :
       (modals[m].inDoc /\ CancelTriggerOn(m)') =>
         /\ modals'[m].cancelCalls = modals[m].cancelCalls + 1
         /\ modals'[m].submitCalls = modals[m].submitCalls
         /\ ModalsInDocument' = {}]_vars

\* C4 witness: Escape has closed a modal, whose onCancel has been called once.
C4_Witness ==
  /\ EscapePressed
  /\ ModalsInDocument = {}
  /\ \E m \in ModalIds :
       modals[m].closedBy = "escape" /\ modals[m].cancelCalls = 1

\* C5: once a closing trigger has ended a modal, the modal is not in the
\* document and its key listener is not registered on the document.
C5_NothingRemains ==
  \A m \in ModalIds :
    modals[m].closedBy \in ClosingTriggers =>
      ~modals[m].inDoc /\ ~modals[m].listening

\* C6: whenever onSubmit of a modal has been called, the modal was out of the
\* document when the call started and is out of it ever after.
C6_RemovedBeforeSubmit ==
  \A m \in ModalIds :
    /\ \A i \in DOMAIN modals[m].submitCalls : ~modals[m].submitCalls[i].inDoc
    /\ modals[m].submitCalls # <<>> => ~modals[m].inDoc

\* C6 witness: a Redirect click has just submitted a modal.
C6_Witness ==
  \E m \in ModalIds :
    EventOn(m, "redirectClick") /\ Len(modals[m].submitCalls) = 1

\* C7: the argument of onSubmit has the parameter names other than q as its
\* keys; its values are all false if "query only" is checked, and are the
\* checked states of the parameter checkboxes otherwise.  (The checkboxes of
\* a submitted modal keep the state they had at the submission.)
C7_SelectionSet ==
  \A m \in ModalIds :
    \A i \in DOMAIN modals[m].submitCalls :
      LET selectedParams == modals[m].submitCalls[i].selectedParams
      IN  /\ DOMAIN selectedParams = Range(modals[m].params.keys) \ {"q"}
          /\ modals[m].queryOnly =>
               \A key \in DOMAIN selectedParams : ~selectedParams[key]
          /\ ~modals[m].queryOnly =>
               \A key \in DOMAIN selectedParams :
                 selectedParams[key] = modals[m].checked[key]

\* C7 witness: a modal was submitted with one parameter kept and one dropped.
C7_Witness ==
  \E m \in ModalIds :
    /\ Len(modals[m].submitCalls) = 1
    /\ LET selectedParams == modals[m].submitCalls[1].selectedParams
       IN  /\ \E key \in DOMAIN selectedParams : selectedParams[key]
           /\ \E key \in DOMAIN selectedParams : ~selectedParams[key]

\* The page read from the location itself.
NotApplicablePage ==
  \/ location.hostname \notin {"google.com", "www.google.com"}
  \/ location.pathname # "/search"

NoSearchQuery ==
  \A i \in DOMAIN location.search :
    location.search[i].key = "q" => location.search[i].value = <<>>

AlertsOf(inv) == {i \in DOMAIN alerts : alerts[i].inv = inv}
ModalsOf(inv) == {m \in ModalIds : modals[m].inv = inv}
OpenedBy(inv) == {i \in DOMAIN opened : opened[i].inv = inv}

\* C8: an activation on a page that is not applicable, or on a page with no
\* search query, makes exactly one alert and creates no modal, so that no
\* callback runs and nothing is opened for it.
C8_AbortsWithAlert ==
  (NotApplicablePage \/ NoSearchQuery) =>
    \A inv \in DOMAIN invocations :
      /\ Cardinality(AlertsOf(inv)) = 1
      /\ ModalsOf(inv) = {}
      /\ OpenedBy(inv) = {}

\* C8 witness: two activations on a Google search page without a q parameter.
C8_Witness ==
  /\ ~NotApplicablePage
  /\ \A i \in DOMAIN location.search : location.search[i].key # "q"
  /\ Len(invocations) = 2
  /\ Len(alerts) = 2

\* The search query of the page: the value of its last q parameter.
RECURSIVE LastQuery(_)
LastQuery(entries) ==
  IF entries = <<>> THEN <<>>
  ELSE IF entries[Len(entries)].key = "q" THEN entries[Len(entries)].value
       ELSE LastQuery(SubSeq(entries, 1, Len(entries) - 1))

DuckDuckGoUrl(query) ==
  <<"https://duckduckgo.com/", "?", "q", "=">> \o UrlEncode(query)

\* C9: window.open is called only by a Redirect click on an open modal, once,
\* for that modal's invocation and with the DuckDuckGo URL of the page's
\* search query; an invocation whose modal was closed by Cancel, an overlay
\* click or Escape has opened nothing.
C9_OpensOnlyOnRedirect ==
  [][/\ opened' # opened =>
          \E m \in ModalIds :
            /\ modals[m].inDoc
            /\ EventOn(m, "redirectClick")'
            /\ opened' = Append(opened,
                 [inv |-> modals[m].inv,
                  url |-> DuckDuckGoUrl(LastQuery(location.search)),
                  target |-> "_blank"])
     /\ \A m \in DOMAIN modals' :
          modals'[m].closedBy \in CancellingTriggers =>
            \A i \in DOMAIN opened' : opened'[i].inv # modals'[m].inv]_vars

\* C9 witness: one invocation was cancelled and opened nothing, another was
\* submitted and opened the URL of a query that needs encoding.
C9_Witness ==
  /\ Len(modals) = 2
  /\ modals[1].closedBy = "cancel"
  /\ modals[2].closedBy = "redirect"
  /\ Len(opened) = 1
  /\ opened[1].inv = 2
  /\ opened[1].url = <<"https://duckduckgo.com/", "?", "q", "=", "a", "+", "b">>

RECURSIVE StringsOver(_, _)
StringsOver(alphabet, n) ==
  IF n = 0 THEN {<<>>}
  ELSE LET shorter == StringsOver(alphabet, n - 1)
       IN  shorter \cup {Append(s, c) : s \in shorter, c \in alphabet}

SearchAlphabet == {"q", "a", "=", "&", "+"}

Hostnames ==
  {"www.google.com", "google.com", "www.google.de", "duckduckgo.com"}

Pathnames == {"/search", "/", "/search/"}

ExtractLocations ==
  {Loc(h, p, URLSearchParams(<<"?">> \o body)) :
     h \in Hostnames, p \in Pathnames,
     body \in StringsOver(SearchAlphabet, MaxSearchLen)}
  \cup Locations

Call(fn, result) == [fn |-> fn, result |-> result]

CallIsGoogleSearchPage ==
  /\ calls = <<>>
  /\ calls' = <<Call("isGoogleSearchPage", isGoogleSearchPage)>>
  /\ UNCHANGED <<location, modals, invocations, alerts, opened, lastEvent>>

CallExtractUrlParams ==
  /\ calls = <<>>
  /\ calls' = <<Call("extractUrlParams", extractUrlParams)>>
  /\ UNCHANGED <<location, modals, invocations, alerts, opened, lastEvent>>

CallExtractSearchQuery ==
  /\ calls = <<>>
  /\ calls' = <<Call("extractSearchQuery", extractSearchQuery)>>
  /\ UNCHANGED <<location, modals, invocations, alerts, opened, lastEvent>>

InitExtract ==
  /\ location \in ExtractLocations
  /\ modals = <<>>
  /\ invocations = <<>>
  /\ alerts = <<>>
  /\ opened = <<>>
  /\ lastEvent = Event("none", 0, <<>>)
  /\ calls = <<>>

NextExtract ==
  \/ CallIsGoogleSearchPage
  \/ CallExtractUrlParams
  \/ CallExtractSearchQuery

SpecExtract == InitExtract /\ [][NextExtract]_vars

\* new URLSearchParams(params).toString(): the entries of an object, each
\* name=value with the value form-urlencoded, joined by "&".  A parameter
\* name is one token.
RECURSIVE SerializeKeys(_, _)
SerializeKeys(keys, params) ==
  IF keys = <<>> THEN <<>>
  ELSE <<Head(keys), "=">> \o UrlEncode(params.val[Head(keys)])
       \o (IF Tail(keys) = <<>> THEN <<>> ELSE <<"&">>)
       \o SerializeKeys(Tail(keys), params)

Serialize(params) == SerializeKeys(params.keys, params)

Pairs(entries) == {<<entries[i].key, entries[i].value>> : i \in DOMAIN entries}

Called(fn) == calls # <<>> /\ calls[1].fn = fn

(***************************************************************************)
(* SpecDescribe: getParameterDescription called once, with a name and a    *)
(* value drawn from bounded sets.  The values are the concatenations of at *)
(* most MaxTbsParts parts.                                                 *)
(***************************************************************************)
ValueParts ==
  { QdrD, QdrW, QdrM, QdrY, Cdr1, <<"q", "d", "r", ":", "h">>, <<"l", "i", ":", "1">>, <<"q", "d", "r", ":">>, <<"d">>, <<",">>,
    <<"a", "c", "t", "i", "v", "e">>, <<"i", "s", "c", "h">>, <<"t", "o", "S", "t", "r", "i", "n", "g">> }

RECURSIVE Concatenations(_)
Concatenations(n) ==
  IF n = 0 THEN {<<>>}
  ELSE LET shorter == Concatenations(n - 1)
       IN  shorter \cup {s \o part : s \in shorter, part \in ValueParts}

DescribedNames ==
  RecognizedNames \cup {"ei", "sca_esv", "toString", "constructor", "__proto__"}

Describe ==
  /\ calls = <<>>
  /\ \E paramName \in DescribedNames, paramValue \in Concatenations(MaxTbsParts) :
       calls' = <<[paramName |-> paramName, paramValue |-> paramValue,
                   result |-> getParameterDescription(paramName, paramValue)]>>
  /\ UNCHANGED <<location, modals, invocations, alerts, opened, lastEvent>>

NextDescribe == Describe

SpecDescribe == InitBuild /\ [][NextDescribe]_vars

\* C11: for every engine identifier other than "duckduckgo", buildSearchUrl
\* throws the unsupported-engine error and returns no URL.
C11_UnsupportedEngineFails ==
  \A i \in DOMAIN calls :
    calls[i].searchEngine # "duckduckgo" =>
      /\ calls[i].result.threw
      /\ calls[i].result.value =
           <<"Unsupported search engine: ", calls[i].searchEngine>>

C13_ApplicablePage ==
  [][Called("isGoogleSearchPage")' =>
       /\ calls'[1].result =
            (location.hostname \in {"google.com", "www.google.com"}
               /\ location.pathname = "/search")
       /\ UNCHANGED <<location, modals, invocations, alerts, opened>>]_vars

\* C13 witness: the call returned false for a Google host with another path.
C13_Witness ==
  /\ Called("isGoogleSearchPage")
  /\ ~calls[1].result
  /\ location.hostname = "www.google.com"
  /\ location.pathname = "/search/"

\* C14: the key/value pairs of the result of extractUrlParams, serialised and
\* parsed again, are the key/value pairs of the query string.
C14_PairsPreserved ==
  Called("extractUrlParams") =>
    Pairs(URLSearchParams(Serialize(calls[1].result))) = Pairs(location.search)

HasQueryParameter == \E i \in DOMAIN location.search : location.search[i].key = "q"

\* C15: extractSearchQuery returns the value of q whenever the query string
\* has a q parameter, the empty value included, and null only when it has
\* none.
C15_QueryValue ==
  Called("extractSearchQuery") =>
    IF HasQueryParameter
    THEN calls[1].result = LastQuery(location.search)
    ELSE calls[1].result = Null

\* C16 as stated: on an applicable page the result of extractUrlParams has
\* the key q.
C16_AlwaysContainsQuery ==
  (Called("extractUrlParams") /\ ~NotApplicablePage) =>
    HasKey(calls[1].result, "q")

\* C16 as amended: on an applicable page the result of extractUrlParams has
\* the key q exactly when the query string has a q parameter, and then with
\* the value of the last one.
C16_ContainsQueryWhenPresent ==
  (Called("extractUrlParams") /\ ~NotApplicablePage) =>
    /\ HasKey(calls[1].result, "q") <=> HasQueryParameter
    /\ HasQueryParameter =>
         calls[1].result.val["q"] = LastQuery(location.search)

\* C16 witness: on an applicable page whose query string has q among other
\* parameters, the result has q.
C16_Witness ==
  /\ Called("extractUrlParams")
  /\ ~NotApplicablePage
  /\ Len(location.search) = 3
  /\ HasKey(calls[1].result, "q")
  /\ calls[1].result.val["q"] = AB

\* C17: getParameterDescription returns a string for every name and value,
\* and for a name that is not a recognized one the string "<name>: <value>".
C17_DescriptorTotal ==
  \A i \in DOMAIN calls :
    /\ calls[i].result.type = "string"
    /\ calls[i].paramName \notin RecognizedNames =>
         calls[i].result.value = <<calls[i].paramName, ": ">> \o calls[i].paramValue

TimeFilters == {QdrD, QdrW, QdrM, QdrY, Cdr1}

TimeFilterLabel(filter) ==
  CASE filter = QdrD -> <<"Time Filter: Past Day">>
    [] filter = QdrW -> <<"Time Filter: Past Week">>
    [] filter = QdrM -> <<"Time Filter: Past Month">>
    [] filter = QdrY -> <<"Time Filter: Past Year">>
    [] filter = Cdr1 -> <<"Time Filter: Custom Date Range">>

\* C18: for tbs, a value holding one of qdr:d, qdr:w, qdr:m, qdr:y, cdr:1 is
\* described by "Time Filter: Past Day/Week/Month/Year/Custom Date Range"
\* respectively, and a value holding none of them by "Time Filter".
C18_TimeFilterLabel ==
  \A i \in DOMAIN calls :
    calls[i].paramName = "tbs" =>
      LET held == {f \in TimeFilters : Includes(calls[i].paramValue, f)}
      IN  /\ \A f \in TimeFilters :
               held = {f} => calls[i].result = String(TimeFilterLabel(f))
          /\ held = {} => calls[i].result = String(<<"Time Filter">>)

\* C18 witness: tbs = "qdr:w" was described as the past week.
C18_Witness ==
  /\ calls # <<>>
  /\ calls[1].paramName = "tbs"
  /\ calls[1].paramValue = QdrW
  /\ calls[1].result = String(<<"Time Filter: Past Week">>)

\* C19: onSubmit of a modal is called only in the step of a Redirect click on
\* it, and onCancel only in the step of a Cancel click or overlay click on it
\* or of an Escape press; a step that runs createModal calls no callback, of
\* the new modal or of the one it replaces.
C19_CallbacksOnlyOnUserEvents ==
  [][\A m \in DOMAIN modals' :
       LET submitsBefore == IF m \in DOMAIN modals THEN modals[m].submitCalls
                            ELSE <<>>
           cancelsBefore == IF m \in DOMAIN modals THEN modals[m].cancelCalls
                            ELSE 0
       IN  /\ modals'[m].submitCalls # submitsBefore =>
                EventOn(m, "redirectClick")'
           /\ modals'[m].cancelCalls # cancelsBefore =>
                \/ EventOn(m, "cancelClick")'
                \/ EventOn(m, "overlayClick")'
                \/ EscapePressed']_vars

\* C19 witness: createModal has just replaced an open modal, and no callback
\* of either modal has been called.
C19_Witness ==
  /\ lastEvent.type = "activate"
  /\ Len(modals) = 2
  /\ modals[1].closedBy = "replaced"
  /\ modals[2].inDoc
  /\ CallbackCalls(modals[1]) = 0
  /\ CallbackCalls(modals[2]) = 0

\* C20: every invocation of duckduckgoRedirect has called window.open at most
\* once.
C20_OpensAtMostOnce ==
  \A inv \in DOMAIN invocations : Cardinality(OpenedBy(inv)) <= 1

\* C20 witness: two invocations have each opened one browsing context, and an
\* Escape press followed.
C20_Witness ==
  /\ Len(opened) = 2
  /\ opened[1].inv # opened[2].inv
  /\ EscapePressed

\* A click on the option row of a box outside the checkbox.
RowOrLabelClick(m, box) ==
  lastEvent \in {Event("rowClick", m, box), Event("labelClick", m, box)}

\* C21: a click on the row or the label of an option leaves the modal as a
\* direct change of that option's checkbox would: the checkbox has the
\* opposite checked state and its change listener has run once.
C21_RowClickToggles ==
  [][\A m \in ModalIds : \A box \in Boxes(modals[m]) :
       RowOrLabelClick(m, box)' =>
         /\ IsChecked(modals'[m], box) = ~IsChecked(modals[m], box)
         /\ modals'[m] = checkboxClick(modals[m], box)]_vars

\* The last event was a closing trigger of modal m.
ClosingTriggerOn(m) ==
  \/ EventOn(m, "cancelClick")
  \/ EventOn(m, "overlayClick")
  \/ EventOn(m, "redirectClick")
  \/ EscapePressed

\* The last event was a click inside the content of modal m away from the two
\* buttons, a checkbox change of modal m, or a key press other than Escape.
NonClosingEventOn(m) ==
  \/ lastEvent.modal = m /\
       lastEvent.type \in {"contentClick", "checkboxClick", "rowClick", "labelClick"}
  \/ lastEvent.type = "keydown" /\ lastEvent.target # <<"Escape">>

\* A step in which a non-closing event reached modal m left it in the
\* document if it was there and called neither of its callbacks.
NonClosingEventsKeepOpen ==
  \A m \in ModalIds :
    NonClosingEventOn(m)' =>
      /\ modals'[m].inDoc = modals[m].inDoc
      /\ modals'[m].submitCalls = modals[m].submitCalls
      /\ modals'[m].cancelCalls = modals[m].cancelCalls

\* The step ran createModal: a new modal was appended to the document.
CreateModalStep ==
  /\ lastEvent'.type = "activate"
  /\ Len(modals') = Len(modals) + 1
  /\ modals'[Len(modals')].inDoc

\* C22 as stated: a modal leaves the document only in the step of one of its
\* closing triggers, and a click inside the content, a checkbox change and a
\* key press other than Escape leave it open and call neither callback.
C22_ClosesOnlyByTrigger ==
  [][/\ \A m \in ModalIds :
          modals[m].inDoc /\ ~modals'[m].inDoc => ClosingTriggerOn(m)'
     /\ NonClosingEventsKeepOpen]_vars

\* C22 amended: a modal leaves the document only in the step of one of its
\* closing triggers or in a step in which createModal replaces it; a click
\* inside the content, a checkbox change and a key press other than Escape
\* leave it open and call neither callback.
C22_ClosesOnlyByTriggerOrReplacement ==
  [][/\ \A m \in ModalIds :
          modals[m].inDoc /\ ~modals'[m].inDoc =>
            ClosingTriggerOn(m)' \/ CreateModalStep
     /\ NonClosingEventsKeepOpen]_vars

\* C22 witness: the first modal was replaced, and a key press other than
\* Escape has left the second one open with no callback called.
C22_Witness ==
  /\ Len(modals) = 2
  /\ modals[1].closedBy = "replaced"
  /\ lastEvent = Event("keydown", 0, <<"Enter">>)
  /\ modals[2].inDoc
  /\ CallbackCalls(modals[2]) = 0

\* The names of the params argument of a modal other than q.
NonQueryNames(md) == Range(md.params.keys) \ {"q"}

\* The controls of a modal as createModal is claimed to leave them.
InitialControls(md) ==
  /\ md.queryOnly
  /\ DOMAIN md.checked = NonQueryNames(md)
  /\ "q" \notin DOMAIN md.checked
  /\ \A p \in DOMAIN md.checked : ~md.checked[p]

\* The last step ran createModal and the modal it built is the newest one.
JustOpened ==
  /\ lastEvent.type = "activate"
  /\ invocations # <<>>
  /\ invocations[Len(invocations)].outcome = "modal"

\* C23: the modal a createModal step appends has "query only" checked and one
\* unchecked checkbox for each parameter other than q, none for q; a Redirect
\* click that directly follows passes onSubmit false for each of those
\* parameters.
C23_InitialSelection ==
  [][/\ CreateModalStep => InitialControls(modals'[Len(modals')])
     /\ JustOpened /\ EventOn(Len(modals), "redirectClick")' =>
          LET md == modals'[Len(modals)]
          IN  /\ Len(md.submitCalls) = 1
              /\ DOMAIN md.submitCalls[1].selectedParams = NonQueryNames(md)
              /\ \A p \in NonQueryNames(md) :
                   md.submitCalls[1].selectedParams[p] = FALSE]_vars

\* C23 witness: a modal with two parameters besides q was submitted with no
\* parameter selected, and createModal has just opened a second one whose
\* controls are in their initial state.
C23_Witness ==
  /\ Len(modals) = 2
  /\ JustOpened
  /\ modals[1].closedBy = "redirect"
  /\ Len(modals[1].submitCalls) = 1
  /\ \A p \in NonQueryNames(modals[1]) :
       modals[1].submitCalls[1].selectedParams[p] = FALSE
  /\ Cardinality(NonQueryNames(modals[2])) = 2
  /\ "q" \in Range(modals[2].params.keys)
  /\ modals[2].inDoc
  /\ InitialControls(modals[2])

====
